---- MODULE Spec2Model ----
(***************************************************************************)
(* Model of src/bondingcurve.py: the integer bonding-curve pricing         *)
(* functions (calculate_summation, calculate_single_pass_price,            *)
(* calculate_price), the fee breakdown of print_price_analysis, the        *)
(* best-result bookkeeping of BondingCurveOptimizer, and evaluations and   *)
(* pricing calls running in concurrent threads of one process.             *)
(*                                                                         *)
(* Python integers are unbounded.  Values that can exceed 2^31 are kept as *)
(* little-endian sequences of base-10^4 limbs without leading zero limbs   *)
(* (the empty sequence is 0); the Py* operators are Python's int           *)
(* operators on that representation.                                       *)
(***************************************************************************)
EXTENDS Integers, Sequences, FiniteSets, TLC

VARIABLES
    bound,              \* TRUE once the DEFAULT_WEIGHT_* globals are bound
    DEFAULT_WEIGHT_A,   \* module global (meaningful when bound)
    DEFAULT_WEIGHT_B,   \* module global (meaningful when bound)
    DEFAULT_WEIGHT_C,   \* module global (meaningful when bound)
    call,               \* the top-level call under way: its arguments and result
    best_score,         \* BondingCurveOptimizer.best_score
    best_weights,       \* BondingCurveOptimizer.best_weights
    history,            \* BondingCurveOptimizer.history
    X,                  \* bayesian_optimization: candidates evaluated so far
    y,                  \* bayesian_optimization: their scores
    pc,                 \* position of bayesian_optimization
    i,                  \* bayesian_optimization: loop counter
    n_iterations,       \* bayesian_optimization: its argument
    results_file,       \* BondingCurveTestingResults.txt: the blocks appended
    evals,              \* every objective_function call so far: candidate, score
    threads             \* the frames of calls running in concurrent threads

vars == <<bound, DEFAULT_WEIGHT_A, DEFAULT_WEIGHT_B, DEFAULT_WEIGHT_C, call,
          best_score, best_weights, history, X, y, pc, i, n_iterations,
          results_file, evals, threads>>

weightVars == <<bound, DEFAULT_WEIGHT_A, DEFAULT_WEIGHT_B, DEFAULT_WEIGHT_C>>

optVars == <<best_score, best_weights, history, X, y, pc, i, n_iterations,
            results_file, evals>>

----------------------------------------------------------------------------
(* Program constants *)

OCTA == 100000000

INPUT_SCALE == 1000000

INITIAL_PRICE == 100000000

BPS == 10000

----------------------------------------------------------------------------
(* Bounds of the model *)

\* calculate_summation is applied to every n in 0..MaxN
MaxN == 10000

\* pricing calls take supply in -MaxNegative..MaxSupply, amount in -MaxNegative..MaxAmount
MaxSupply == 30

MaxAmount == 4

MaxNegative == 2

\* fee breakdowns are taken of the base prices k * OCTA and (OCTA + k) * OCTA,
\* k in 0..MaxPriceUnits
MaxPriceUnits == 60

\* finite objective scores of the model are 0..MaxScore
MaxScore == 1

\* objective_function is called at most MaxEvals times in all
MaxEvals == 4

\* n_random, the number of random points bayesian_optimization starts with
\* (10 in the code)
NRandom == 2

\* bayesian_optimization is run with n_iterations in 0..MaxIterations
MaxIterations == 1

\* an evaluation running in a thread prices the first MaxPriced target
\* supplies (all of them, then further levels, in the code)
MaxPriced == 2

----------------------------------------------------------------------------
(* Python int arithmetic on limb sequences *)

Base == 10^4

RECURSIVE PyInt(_)
PyInt(k) == IF k = 0 THEN <<>> ELSE <<k % Base>> \o PyInt(k \div Base)

RECURSIVE PyAddC(_, _, _)
PyAddC(a, b, c) ==
    IF a = <<>> /\ b = <<>>
    THEN (IF c = 0 THEN <<>> ELSE <<c>>)
    ELSE LET x == IF a = <<>> THEN 0 ELSE Head(a)
             z == IF b = <<>> THEN 0 ELSE Head(b)
             s == x + z + c
         IN  <<s % Base>> \o PyAddC(IF a = <<>> THEN <<>> ELSE Tail(a),
                                    IF b = <<>> THEN <<>> ELSE Tail(b),
                                    s \div Base)

PyAdd(a, b) == PyAddC(a, b, 0)

RECURSIVE PyMulLimb(_, _, _)
PyMulLimb(a, k, c) ==
    IF a = <<>>
    THEN PyInt(c)
    ELSE LET p == Head(a) * k + c
         IN  <<p % Base>> \o PyMulLimb(Tail(a), k, p \div Base)

RECURSIVE PyMul(_, _)
PyMul(a, b) ==
    IF a = <<>> \/ b = <<>>
    THEN <<>>
    ELSE LET rest == PyMul(a, Tail(b))
             low  == IF Head(b) = 0 THEN <<>> ELSE PyMulLimb(a, Head(b), 0)
         IN  PyAdd(low, IF rest = <<>> THEN <<>> ELSE <<0>> \o rest)

\* quotient and remainder by a native divisor 1 <= d <= Base
RECURSIVE PyDivMod(_, _)
PyDivMod(a, d) ==
    IF a = <<>>
    THEN [q |-> <<>>, r |-> 0]
    ELSE LET hi  == PyDivMod(Tail(a), d)
             cur == hi.r * Base + Head(a)
         IN  [q |-> IF hi.q = <<>> /\ cur \div d = 0
                    THEN <<>>
                    ELSE <<cur \div d>> \o hi.q,
              r |-> cur % d]

PyFloorDiv(a, d) == PyDivMod(a, d).q

PyMod(a, d) == PyDivMod(a, d).r

\* -1, 0, 1 as a < b, a = b, a > b
RECURSIVE PyCmp(_, _)
PyCmp(a, b) ==
    IF Len(a) # Len(b)
    THEN (IF Len(a) < Len(b) THEN -1 ELSE 1)
    ELSE IF a = <<>>
         THEN 0
         ELSE LET c == PyCmp(Tail(a), Tail(b))
              IN  IF c # 0 THEN c
                  ELSE IF Head(a) < Head(b) THEN -1
                  ELSE IF Head(a) > Head(b) THEN 1 ELSE 0

PyLeq(a, b) == PyCmp(a, b) <= 0

PyMax(a, b) == IF PyCmp(a, b) >= 0 THEN a ELSE b

----------------------------------------------------------------------------
(* calculate_summation *)

\* the deferred divisions test the already divided factors
calculate_summation_deferred_on_divided(n) ==
    IF n = 0 THEN <<>>
    ELSE
    LET two_n == 2 * n
        two_n_plus_1 == two_n + 1
        n_squared == n * n
        two_n_squared == 2 * n_squared
        three_n == 3 * n
        inner_sum == two_n_squared + three_n + 1
        inner2 == IF inner_sum % 2 = 0 THEN inner_sum \div 2 ELSE inner_sum
        n2 == IF inner_sum % 2 # 0 /\ n % 2 = 0 THEN n \div 2 ELSE n
        inner3 == IF inner2 % 3 = 0 THEN inner2 \div 3 ELSE inner2
        n3 == IF inner2 % 3 # 0 /\ n2 % 3 = 0 THEN n2 \div 3 ELSE n2
        product == PyMul(PyInt(n3), PyInt(inner3))
        after2 == IF inner3 % 2 # 0 /\ n3 % 2 # 0
                  THEN PyFloorDiv(product, 2) ELSE product
        after3 == IF inner3 % 3 # 0 /\ n3 % 3 # 0
                  THEN PyFloorDiv(after2, 3) ELSE after2
    IN  after3

calculate_summation(n) ==
    IF n = 0 THEN <<>>
    ELSE
    LET two_n == 2 * n
        two_n_plus_1 == two_n + 1
        n_squared == n * n
        two_n_squared == 2 * n_squared
        three_n == 3 * n
        inner_sum == two_n_squared + three_n + 1
        \* divide by 2 first if possible
        inner2 == IF inner_sum % 2 = 0 THEN inner_sum \div 2 ELSE inner_sum
        n2 == IF inner_sum % 2 # 0 /\ n % 2 = 0 THEN n \div 2 ELSE n
        \* divide by 3 if possible
        inner3 == IF inner2 % 3 = 0 THEN inner2 \div 3 ELSE inner2
        n3 == IF inner2 % 3 # 0 /\ n2 % 3 = 0 THEN n2 \div 3 ELSE n2
        \* multiply remaining terms
        product == PyMul(PyInt(n3), PyInt(inner3))
        \* remaining divisions
        after2 == IF inner_sum % 2 # 0 /\ n % 2 # 0
                  THEN PyFloorDiv(product, 2) ELSE product
        after3 == IF inner_sum % 3 # 0 /\ n % 3 # 0
                  THEN PyFloorDiv(after2, 3) ELSE after2
    IN  after3

----------------------------------------------------------------------------
(* calculate_single_pass_price, calculate_price *)

\* the floor is taken with min instead of max
calculate_single_pass_price_min(supply) ==
    IF supply = 0 THEN PyInt(INITIAL_PRICE)
    ELSE
    LET s_plus_c == supply + DEFAULT_WEIGHT_C IN
    IF s_plus_c <= 1 THEN PyInt(INITIAL_PRICE)
    ELSE
    LET n == s_plus_c - 1
        s == calculate_summation(n)
        weighted_a == PyFloorDiv(PyMul(s, PyInt(DEFAULT_WEIGHT_A)), BPS)
        weighted_b == PyFloorDiv(PyMul(weighted_a, PyInt(DEFAULT_WEIGHT_B)), BPS)
        price == PyMul(weighted_b, PyInt(OCTA))
    IN  IF PyCmp(PyInt(INITIAL_PRICE), price) <= 0 THEN PyInt(INITIAL_PRICE) ELSE price

\* the final max with INITIAL_PRICE is left out
calculate_single_pass_price_no_floor(supply) ==
    IF supply = 0 THEN PyInt(INITIAL_PRICE)
    ELSE
    LET s_plus_c == supply + DEFAULT_WEIGHT_C IN
    IF s_plus_c <= 1 THEN PyInt(INITIAL_PRICE)
    ELSE
    LET n == s_plus_c - 1
        s == calculate_summation(n)
        weighted_a == PyFloorDiv(PyMul(s, PyInt(DEFAULT_WEIGHT_A)), BPS)
        weighted_b == PyFloorDiv(PyMul(weighted_a, PyInt(DEFAULT_WEIGHT_B)), BPS)
        price == PyMul(weighted_b, PyInt(OCTA))
    IN  price

\* the summation is taken at s + c instead of s + c - 1
calculate_single_pass_price_off_by_one(supply) ==
    IF supply = 0 THEN PyInt(INITIAL_PRICE)
    ELSE
    LET s_plus_c == supply + DEFAULT_WEIGHT_C IN
    IF s_plus_c <= 1 THEN PyInt(INITIAL_PRICE)
    ELSE
    LET n == s_plus_c
        s == calculate_summation(n)
        weighted_a == PyFloorDiv(PyMul(s, PyInt(DEFAULT_WEIGHT_A)), BPS)
        weighted_b == PyFloorDiv(PyMul(weighted_a, PyInt(DEFAULT_WEIGHT_B)), BPS)
        price == PyMul(weighted_b, PyInt(OCTA))
    IN  PyMax(PyInt(INITIAL_PRICE), price)

\* reads the DEFAULT_WEIGHT_* globals; evaluated only where they are bound
calculate_single_pass_price(supply) ==
    IF supply = 0 THEN PyInt(INITIAL_PRICE)
    ELSE
    LET s_plus_c == supply + DEFAULT_WEIGHT_C IN
    IF s_plus_c <= 1 THEN PyInt(INITIAL_PRICE)
    ELSE
    LET n == s_plus_c - 1
        s == calculate_summation(n)
        weighted_a == PyFloorDiv(PyMul(s, PyInt(DEFAULT_WEIGHT_A)), BPS)
        weighted_b == PyFloorDiv(PyMul(weighted_a, PyInt(DEFAULT_WEIGHT_B)), BPS)
        price == PyMul(weighted_b, PyInt(OCTA))
    IN  PyMax(PyInt(INITIAL_PRICE), price)

\* a sell looks below level 0 instead of stopping there
current_supply_unclamped(supply, k, is_sell) ==
    IF is_sell THEN supply - k - 1 ELSE supply + k

\* a sell starts at the current supply level instead of one below it
current_supply_sell_from_top(supply, k, is_sell) ==
    IF is_sell
    THEN (IF supply <= k THEN 0 ELSE supply - k)
    ELSE supply + k

\* the supply level priced by iteration k of calculate_price's loop
current_supply(supply, k, is_sell) ==
    IF is_sell
    THEN (IF supply <= k + 1 THEN 0 ELSE supply - k - 1)
    ELSE supply + k

\* total_price after the iterations 0..k-1 of the loop
RECURSIVE calculate_price_loop(_, _, _)
calculate_price_loop(supply, k, is_sell) ==
    IF k <= 0
    THEN <<>>
    ELSE PyAdd(calculate_price_loop(supply, k - 1, is_sell),
               calculate_single_pass_price(current_supply(supply, k - 1, is_sell)))

\* range(amount) is empty for amount <= 0
calculate_price(supply, amount, is_sell) ==
    calculate_price_loop(supply, amount, is_sell)

\* the exception a pricing call ends with: the only one the code can raise is
\* the NameError of reading an unbound DEFAULT_WEIGHT_C, at a level other than 0
calculate_price_raises(supply, amount, is_sell) ==
    IF ~bound /\ \E k \in 0..(amount - 1) : current_supply(supply, k, is_sell) # 0
    THEN "NameError"
    ELSE "none"

----------------------------------------------------------------------------
(* Python float: an IEEE-754 double m * 2^e with 2^52 <= m < 2^53, or zero  *)
(* (m = 0, e = 0).  Only non-negative values far from the exponent limits   *)
(* occur.  Every operation returns the exact result rounded to nearest,     *)
(* ties to even.                                                            *)

TwoTo52 == PyMul(PyInt(2^26), PyInt(2^26))

TwoTo53 == PyMul(PyInt(2^26), PyInt(2^27))

TwoTo66 == PyMul(PyInt(2^13), TwoTo53)

FloatZero == [m |-> <<>>, e |-> 0]

\* round the exact value (S + f) * 2^e to 53 bits, where the fraction f < 1
\* is known through guard (its first bit) and sticky (the rest is non-zero);
\* bits are dropped 13 at a time while more than 13 are to go
RECURSIVE FloatRound(_, _, _, _)
FloatRound(S, guard, sticky, e) ==
    IF PyCmp(S, TwoTo66) >= 0
    THEN LET r == PyMod(S, 2^13)
         IN  FloatRound(PyFloorDiv(S, 2^13), r \div 2^12,
                        sticky \/ guard = 1 \/ r % 2^12 # 0, e + 13)
    ELSE IF PyCmp(S, TwoTo53) >= 0
    THEN FloatRound(PyFloorDiv(S, 2), PyMod(S, 2), sticky \/ guard = 1, e + 1)
    ELSE LET up == guard = 1 /\ (sticky \/ PyMod(S, 2) = 1)
             m  == IF up THEN PyAdd(S, <<1>>) ELSE S
         IN  IF m = TwoTo53
             THEN [m |-> TwoTo52, e |-> e + 1]
             ELSE [m |-> m, e |-> e]

\* the quotient of a by OCTA = BPS * BPS, and whether the remainder is zero
PyDivModOcta(a) ==
    LET lo == PyDivMod(a, BPS)
        hi == PyDivMod(lo.q, BPS)
    IN  [q |-> hi.q, zero_rem |-> lo.r = 0 /\ hi.r = 0]

\* int / OCTA: a is scaled by 2^k until the quotient has more than 53 bits,
\* and the quotient rounded
RECURSIVE TrueDivOctaScaled(_, _)
TrueDivOctaScaled(a, k) ==
    LET d == PyDivModOcta(a)
    IN  IF PyCmp(d.q, TwoTo53) >= 0
        THEN FloatRound(d.q, 0, ~d.zero_rem, 0 - k)
        ELSE TrueDivOctaScaled(PyMul(a, PyInt(2^13)), k + 13)

TrueDivOcta(a) == IF a = <<>> THEN FloatZero ELSE TrueDivOctaScaled(a, 0)

RECURSIVE PyShiftLeft(_, _)
PyShiftLeft(a, k) ==
    IF k >= 13 THEN PyShiftLeft(PyMul(a, PyInt(2^13)), k - 13)
    ELSE PyMul(a, PyInt(2^k))

\* float + float
FloatAdd(x, z) ==
    IF x.m = <<>> THEN z
    ELSE IF z.m = <<>> THEN x
    ELSE LET e == IF x.e < z.e THEN x.e ELSE z.e
         IN  FloatRound(PyAdd(PyShiftLeft(x.m, x.e - e), PyShiftLeft(z.m, z.e - e)),
                        0, FALSE, e)

----------------------------------------------------------------------------
(* print_price_analysis: the fee breakdown of a base price *)

\* lines 398-410: every value is converted to APT, then the total is added up
price_analysis_fees(price_in_octa) ==
    LET price_in_apt == TrueDivOcta(price_in_octa)
        protocol_fee == TrueDivOcta(PyFloorDiv(PyMul(price_in_octa, <<4>>), 100))
        subject_fee  == TrueDivOcta(PyFloorDiv(PyMul(price_in_octa, <<8>>), 100))
        total_cost   == FloatAdd(FloatAdd(price_in_apt, protocol_fee), subject_fee)
    IN  [base_price   |-> price_in_apt,
         protocol_fee |-> protocol_fee,
         subject_fee  |-> subject_fee,
         total_cost   |-> total_cost]

----------------------------------------------------------------------------
(* State machine *)

\* float('inf'): above every finite score of the model
Inf == 1000000

\* Python's None for best_weights (a candidate is a triple)
None == <<>>

\* the program right after the module is loaded and an optimizer constructed
Loaded ==
    /\ bound = FALSE
    /\ DEFAULT_WEIGHT_A = 0
    /\ DEFAULT_WEIGHT_B = 0
    /\ DEFAULT_WEIGHT_C = 0
    /\ best_score = Inf
    /\ best_weights = None
    /\ history = <<>>
    /\ X = <<>>
    /\ y = <<>>
    /\ pc = "idle"
    /\ i = 0
    /\ n_iterations = 0
    /\ results_file = <<>>
    /\ evals = <<>>
    /\ threads = <<>>

\* a caller is about to apply calculate_summation to some n
InitSum ==
    /\ Loaded
    /\ \E n \in 0..MaxN :
          call = [op |-> "calculate_summation", n |-> n,
                  returned |-> FALSE, ret |-> <<>>]

CalculateSummation ==
    /\ call.op = "calculate_summation"
    /\ ~call.returned
    /\ call' = [call EXCEPT !.returned = TRUE, !.ret = calculate_summation(call.n)]
    /\ UNCHANGED <<weightVars, optVars, threads>>

NextSum == CalculateSummation

SpecSum == InitSum /\ [][NextSum]_vars

----------------------------------------------------------------------------
(* BondingCurveOptimizer.                                                   *)
(*                                                                          *)
(* A candidate is a triple of floats (a row of a numpy array); the model    *)
(* holds each float as a whole number of halves, so that (701, 1601, 3) is  *)
(* the candidate (350.5, 800.5, 1.5).  The score lines 59-115 compute from  *)
(* the prices under the candidate is a finite non-negative float: prices    *)
(* are at least OCTA and targets positive, so no division is by zero.  The  *)
(* bookkeeping only compares scores; the model takes the score of an        *)
(* evaluation as any value of 0..MaxScore.                                  *)

Scores == 0..MaxScore

\* int(x) of the float x = halves / 2, x >= 0
FloatToInt(halves) == halves \div 2

\* line 50 on floats held in halves
InConstraints(weights) ==
    /\ 2 * 100 <= weights[1] /\ weights[1] <= 2 * 5000
    /\ 2 * 100 <= weights[2] /\ weights[2] <= 2 * 5000
    /\ 2 * 1 <= weights[3] /\ weights[3] <= 2 * 10

\* the part of the program state objective_function reads and writes
OptimizerState ==
    [bound |-> bound,
     DEFAULT_WEIGHT_A |-> DEFAULT_WEIGHT_A,
     DEFAULT_WEIGHT_B |-> DEFAULT_WEIGHT_B,
     DEFAULT_WEIGHT_C |-> DEFAULT_WEIGHT_C,
     best_score |-> best_score,
     best_weights |-> best_weights,
     history |-> history,
     results_file |-> results_file]

\* lines 54-57 and 130-133: the globals take int(...) of the candidate
SetGlobals(st, weights) ==
    [st EXCEPT !.bound = TRUE,
               !.DEFAULT_WEIGHT_A = FloatToInt(weights[1]),
               !.DEFAULT_WEIGHT_B = FloatToInt(weights[2]),
               !.DEFAULT_WEIGHT_C = FloatToInt(weights[3])]

\* the result is written to the file but not stored in the history
save_weight_results_file_only(st, weights, score) ==
    LET set == SetGlobals(st, weights)
    IN  [set EXCEPT !.results_file =
                        Append(@, <<set.DEFAULT_WEIGHT_A, set.DEFAULT_WEIGHT_B,
                                    set.DEFAULT_WEIGHT_C, score>>)]

save_weight_results(st, weights, score) ==
    LET set == SetGlobals(st, weights)
    IN  [set EXCEPT !.results_file =
                        Append(@, <<set.DEFAULT_WEIGHT_A, set.DEFAULT_WEIGHT_B,
                                    set.DEFAULT_WEIGHT_C, score>>),
                    !.history = Append(@, [weights |-> weights, score |-> score])]

\* the globals are assigned before the constraints are enforced
objective_function_checks_late(weights, score) ==
    LET set == SetGlobals(OptimizerState, weights)
    IN  IF ~InConstraints(weights)
        THEN [ret |-> Inf, st |-> set]
        ELSE IF score < set.best_score
             THEN [ret |-> score,
                   st  |-> save_weight_results(
                               [set EXCEPT !.best_score = score,
                                           !.best_weights = weights],
                               weights, score)]
             ELSE [ret |-> score, st |-> set]

\* a score equal to the best replaces it
objective_function_replaces_ties(weights, score) ==
    IF ~InConstraints(weights)
    THEN [ret |-> Inf, st |-> OptimizerState]
    ELSE LET set == SetGlobals(OptimizerState, weights)
         IN  IF score <= set.best_score
             THEN [ret |-> score,
                   st  |-> save_weight_results(
                               [set EXCEPT !.best_score = score,
                                           !.best_weights = weights],
                               weights, score)]
             ELSE [ret |-> score, st |-> set]

\* objective_function(weights), where score is what lines 59-115 compute:
\* the returned value and the state it leaves
objective_function(weights, score) ==
    IF ~InConstraints(weights)
    THEN [ret |-> Inf, st |-> OptimizerState]
    ELSE LET set == SetGlobals(OptimizerState, weights)
         IN  IF score < set.best_score
             THEN [ret |-> score,
                   st  |-> save_weight_results(
                               [set EXCEPT !.best_score = score,
                                           !.best_weights = weights],
                               weights, score)]
             ELSE [ret |-> score, st |-> set]

----------------------------------------------------------------------------
(* Pricing calls.  Every pricing call of the program is made after          *)
(* objective_function has bound the DEFAULT_WEIGHT_* globals to int(...)    *)
(* of a candidate inside the constraints, so a pricing session starts with  *)
(* such a triple.  (main rebinds DEFAULT_WEIGHT_C to the float              *)
(* best_weights[2] for its closing report only; the pricing claims are      *)
(* about integer weights.)                                                  *)

WeightsA == {100, 350, 5000}

WeightsB == {100, 800, 5000}

WeightsC == {1, 2, 3, 10}

Supplies == (0 - MaxNegative)..MaxSupply

Amounts == (0 - MaxNegative)..MaxAmount

WeightsBound ==
    /\ bound = TRUE
    /\ DEFAULT_WEIGHT_A \in WeightsA
    /\ DEFAULT_WEIGHT_B \in WeightsB
    /\ DEFAULT_WEIGHT_C \in WeightsC
    /\ best_score = Inf
    /\ best_weights = None
    /\ history = <<>>
    /\ X = <<>>
    /\ y = <<>>
    /\ pc = "idle"
    /\ i = 0
    /\ n_iterations = 0
    /\ results_file = <<>>
    /\ evals = <<>>
    /\ threads = <<>>

InitPrice ==
    /\ WeightsBound
    /\ \/ \E supply \in Supplies, amount \in Amounts, is_sell \in BOOLEAN :
             call = [op |-> "calculate_price", supply |-> supply, amount |-> amount,
                     is_sell |-> is_sell, returned |-> FALSE,
                     raised |-> "none", ret |-> <<>>]
       \/ \E supply \in Supplies :
             call = [op |-> "calculate_single_pass_price", supply |-> supply,
                     amount |-> 1, is_sell |-> FALSE, returned |-> FALSE,
                     raised |-> "none", ret |-> <<>>]

CalculatePrice ==
    /\ call.op = "calculate_price"
    /\ ~call.returned
    /\ LET raised == calculate_price_raises(call.supply, call.amount, call.is_sell)
       IN  call' = [call EXCEPT
                      !.returned = TRUE,
                      !.raised = raised,
                      !.ret = IF raised = "none"
                              THEN calculate_price(call.supply, call.amount, call.is_sell)
                              ELSE <<>>]
    /\ UNCHANGED <<weightVars, optVars, threads>>

CalculateSinglePassPrice ==
    /\ call.op = "calculate_single_pass_price"
    /\ ~call.returned
    /\ LET raised == IF ~bound /\ call.supply # 0 THEN "NameError" ELSE "none"
       IN  call' = [call EXCEPT
                      !.returned = TRUE,
                      !.raised = raised,
                      !.ret = IF raised = "none"
                              THEN calculate_single_pass_price(call.supply)
                              ELSE <<>>]
    /\ UNCHANGED <<weightVars, optVars, threads>>

NextPrice == CalculatePrice \/ CalculateSinglePassPrice

SpecPrice == InitPrice /\ [][NextPrice]_vars

----------------------------------------------------------------------------
(* Fee breakdown.  calculate_price returns a sum of unit prices, each a      *)
(* multiple of OCTA; print_price_analysis asks for amount_in_apt * OCTA      *)
(* units, so that its base price is 0 or at least OCTA * OCTA.               *)

\* calculate_price(0, OCTA, False), the base price of
\* print_price_analysis(0, 1), under the weights (100, 100, 1) and
\* (350, 800, 1): 83333333333333324995001503100000000 and
\* 2333333333333333099994806001000000000
FullUnitPrices ==
    {<<0, 0, 5031, 5001, 2499, 3333, 3333, 3333, 833>>,
     <<0, 0, 10, 4806, 9999, 3330, 3333, 3333, 3333, 2>>}

BasePrices ==
    {PyMul(PyInt(k), PyInt(OCTA)) : k \in 0..MaxPriceUnits}
    \cup {PyMul(PyInt(OCTA + k), PyInt(OCTA)) : k \in 0..MaxPriceUnits}
    \cup FullUnitPrices

InitFee ==
    /\ WeightsBound
    /\ \E p \in BasePrices :
          call = [op |-> "print_price_analysis", price_in_octa |-> p,
                  returned |-> FALSE, ret |-> <<>>]

\* print_price_analysis from the point where calculate_price has returned
PrintPriceAnalysis ==
    /\ call.op = "print_price_analysis"
    /\ ~call.returned
    /\ call' = [call EXCEPT !.returned = TRUE,
                            !.ret = price_analysis_fees(call.price_in_octa)]
    /\ UNCHANGED <<weightVars, optVars, threads>>

NextFee == PrintPriceAnalysis

SpecFee == InitFee /\ [][NextFee]_vars

----------------------------------------------------------------------------
(* Calibration: objective_function called directly, and by                   *)
(* bayesian_optimization on points inside the bounds (np.random.uniform      *)
(* over the bounds, then the bounded L-BFGS-B proposals).                    *)

\* candidates in halves: (350, 800, 1), (350.5, 800.5, 1.5) inside the
\* constraints; (99.5, 800, 1), (350, 5000.5, 1), (350, 800, 0.5) and
\* (350, 800, 10.5) outside
Candidates ==
    {<<700, 1600, 2>>, <<701, 1601, 3>>,
     <<199, 1600, 2>>, <<700, 10001, 2>>, <<700, 1600, 1>>, <<700, 1600, 21>>}

InBounds == {w \in Candidates : InConstraints(w)}

InitOpt ==
    /\ Loaded
    /\ call = [op |-> "none", weights |-> None, returned |-> TRUE,
               raised |-> "none", ret |-> <<>>]

\* one call of objective_function: the state it leaves, and the trace
Evaluate(weights, score) ==
    LET r == objective_function(weights, score)
    IN  /\ bound' = r.st.bound
        /\ DEFAULT_WEIGHT_A' = r.st.DEFAULT_WEIGHT_A
        /\ DEFAULT_WEIGHT_B' = r.st.DEFAULT_WEIGHT_B
        /\ DEFAULT_WEIGHT_C' = r.st.DEFAULT_WEIGHT_C
        /\ best_score' = r.st.best_score
        /\ best_weights' = r.st.best_weights
        /\ history' = r.st.history
        /\ results_file' = r.st.results_file
        /\ evals' = Append(evals, [weights |-> weights, score |-> r.ret])
        /\ call' = [op |-> "objective_function", weights |-> weights,
                    returned |-> TRUE, raised |-> "none", ret |-> <<r.ret>>]

\* a caller evaluates a candidate of its own
ObjectiveFunction ==
    /\ pc \in {"idle", "done"}
    /\ Len(evals) < MaxEvals
    /\ \E weights \in Candidates, score \in Scores : Evaluate(weights, score)
    /\ UNCHANGED <<X, y, pc, i, n_iterations, threads>>

\* bayesian_optimization(n) is entered
BayesStart ==
    /\ pc = "idle"
    /\ \E n \in 0..MaxIterations :
          /\ Len(evals) + NRandom + n <= MaxEvals
          /\ n_iterations' = n
    /\ pc' = "sampling"
    /\ X' = <<>>
    /\ y' = <<>>
    /\ i' = 0
    /\ call' = [op |-> "bayesian_optimization", weights |-> None,
                returned |-> FALSE, raised |-> "none", ret |-> <<>>]
    /\ UNCHANGED <<weightVars, best_score, best_weights, history,
                   results_file, evals, threads>>

\* line 165: the next random point is evaluated
BayesSample ==
    /\ pc = "sampling"
    /\ Len(y) < NRandom
    /\ \E weights \in InBounds, score \in Scores :
          /\ Evaluate(weights, score)
          /\ X' = Append(X, weights)
          /\ y' = Append(y, objective_function(weights, score).ret)
    /\ UNCHANGED <<pc, i, n_iterations, threads>>

\* lines 167-171: all random points are evaluated, the loop is entered
BayesFit ==
    /\ pc = "sampling"
    /\ Len(y) = NRandom
    /\ pc' = "loop"
    /\ UNCHANGED <<weightVars, call, best_score, best_weights, history, X, y,
                   i, n_iterations, results_file, evals, threads>>

\* lines 171-207: one iteration, the proposed point is evaluated
BayesIterate ==
    /\ pc = "loop"
    /\ i < n_iterations
    /\ \E x_next \in InBounds, y_next \in Scores :
          /\ Evaluate(x_next, y_next)
          /\ X' = Append(X, x_next)
          /\ y' = Append(y, objective_function(x_next, y_next).ret)
    /\ i' = i + 1
    /\ UNCHANGED <<pc, n_iterations, threads>>

\* line 209
BayesReturn ==
    /\ pc = "loop"
    /\ i = n_iterations
    /\ pc' = "done"
    /\ call' = [op |-> "bayesian_optimization", weights |-> None,
                returned |-> TRUE, raised |-> "none",
                ret |-> <<best_weights, best_score>>]
    /\ UNCHANGED <<weightVars, best_score, best_weights, history, X, y, i,
                   n_iterations, results_file, evals, threads>>

NextOpt ==
    \/ ObjectiveFunction
    \/ BayesStart
    \/ BayesSample
    \/ BayesFit
    \/ BayesIterate
    \/ BayesReturn

SpecOpt == InitOpt /\ [][NextOpt]_vars

----------------------------------------------------------------------------
(* Calls running in concurrent threads.  The module and the optimizer are    *)
(* shared by the threads of a process; a thread is switched between two      *)
(* bytecodes, so that every store to and every load of a DEFAULT_WEIGHT_*    *)
(* global is a step of its own, and whatever a call does in between on its   *)
(* own frame belongs to the step that follows.  threads[t] is the frame of   *)
(* thread t: the call it runs, its position (the line of its next access to  *)
(* shared state), its locals, and what it has loaded and computed so far.    *)
(*                                                                           *)
(* An evaluation prices the target supplies in the order of TARGET_PRICES    *)
(* (line 63); the model follows it through the first NumPriced of them and   *)
(* then takes lines 117-123 as one step, with the score as any value of      *)
(* Scores.                                                                   *)

Threads == {1, 2}

\* the keys of TARGET_PRICES, in order
TargetSupplies == <<1, 5, 10, 15, 25, 50, 75, 100>>

NumPriced == IF MaxPriced < Len(TargetSupplies) THEN MaxPriced ELSE Len(TargetSupplies)

\* candidates in halves: (5000, 5000, 10) and (100, 100, 1) inside the
\* constraints, (99.5, 800, 1) outside
ThreadCandidates == {<<10000, 10000, 20>>, <<200, 200, 2>>, <<199, 1600, 2>>}

\* the supply levels of independent pricing calls
ThreadSupplies == {0, 1, 5}

\* the DEFAULT_WEIGHT_* values lines 55-57 store for a candidate
IntTriple(weights) ==
    <<FloatToInt(weights[1]), FloatToInt(weights[2]), FloatToInt(weights[3])>>

\* lines 282-296 on the values loaded at lines 280, 289 and 290
single_pass_price_loaded(supply, weight_a, weight_b, weight_c) ==
    IF supply = 0 THEN PyInt(INITIAL_PRICE)
    ELSE
    LET s_plus_c == supply + weight_c IN
    IF s_plus_c <= 1 THEN PyInt(INITIAL_PRICE)
    ELSE
    LET n == s_plus_c - 1
        s == calculate_summation(n)
        weighted_a == PyFloorDiv(PyMul(s, PyInt(weight_a)), BPS)
        weighted_b == PyFloorDiv(PyMul(weighted_a, PyInt(weight_b)), BPS)
        price == PyMul(weighted_b, PyInt(OCTA))
    IN  PyMax(PyInt(INITIAL_PRICE), price)

\* lines 117-123: store if best so far
objective_function_store(st, weights, score) ==
    IF score < st.best_score
    THEN save_weight_results([st EXCEPT !.best_score = score,
                                        !.best_weights = weights],
                             weights, score)
    ELSE st

\* the frame of a call that has not taken a step
Frame(op, weights, supply) ==
    [op |-> op, weights |-> weights, supply |-> supply,
     pc |-> IF op = "objective_function" THEN "line47" ELSE "line276",
     k |-> 0, n |-> 0, weighted_a |-> <<>>, loaded_c |-> 0, loaded_a |-> 0,
     used |-> <<>>, prices |-> <<>>, returned |-> FALSE, ret |-> <<>>]

\* calculate_single_pass_price returns price in the frame th, having used
\* the weights of used (empty if it returned before loading any): a pricing
\* call ends, an evaluation goes on to its next target supply
SinglePassReturn(th, price, used) ==
    IF th.op = "calculate_single_pass_price"
    THEN [th EXCEPT !.pc = "done", !.returned = TRUE, !.ret = price,
                    !.used = @ \o used]
    ELSE LET k == th.k + 1
         IN  [th EXCEPT !.k = k,
                        !.prices = Append(@, price),
                        !.used = @ \o used,
                        !.pc = IF k = NumPriced THEN "line117" ELSE "line276",
                        !.supply = IF k = NumPriced THEN @
                                   ELSE TargetSupplies[k + 1]]

\* the process after an earlier evaluation of a candidate inside the
\* constraints, with two calls about to run in two threads: an evaluation,
\* and another evaluation or an independent pricing call
InitThreads ==
    /\ \E weights \in {w \in ThreadCandidates : InConstraints(w)}, score \in Scores :
          /\ bound = TRUE
          /\ DEFAULT_WEIGHT_A = FloatToInt(weights[1])
          /\ DEFAULT_WEIGHT_B = FloatToInt(weights[2])
          /\ DEFAULT_WEIGHT_C = FloatToInt(weights[3])
          /\ best_score = score
          /\ best_weights = weights
          /\ history = <<[weights |-> weights, score |-> score]>>
          /\ results_file = <<IntTriple(weights) \o <<score>> >>
          /\ evals = <<[weights |-> weights, score |-> score]>>
    /\ X = <<>>
    /\ y = <<>>
    /\ pc = "idle"
    /\ i = 0
    /\ n_iterations = 0
    /\ call = [op |-> "threads", weights |-> None, returned |-> FALSE,
               raised |-> "none", ret |-> <<>>]
    /\ \E w1 \in ThreadCandidates :
          \/ \E w2 \in ThreadCandidates :
                threads = <<Frame("objective_function", w1, TargetSupplies[1]),
                            Frame("objective_function", w2, TargetSupplies[1])>>
          \/ \E supply \in ThreadSupplies :
                threads = <<Frame("objective_function", w1, TargetSupplies[1]),
                            Frame("calculate_single_pass_price", None, supply)>>

\* lines 47-51: a candidate outside the constraints returns at once
EnforceConstraints(t) ==
    LET th == threads[t] IN
    /\ th.pc = "line47"
    /\ IF InConstraints(th.weights)
       THEN /\ threads' = [threads EXCEPT ![t].pc = "line55"]
            /\ UNCHANGED evals
       ELSE /\ threads' = [threads EXCEPT ![t].pc = "done",
                                          ![t].returned = TRUE,
                                          ![t].ret = <<Inf>>]
            /\ evals' = Append(evals, [weights |-> th.weights, score |-> Inf])
    /\ UNCHANGED <<weightVars, call, best_score, best_weights, history, X, y,
                   pc, i, n_iterations, results_file>>

\* line 55
StoreWeightA(t) ==
    LET th == threads[t] IN
    /\ th.pc = "line55"
    /\ DEFAULT_WEIGHT_A' = FloatToInt(th.weights[1])
    /\ threads' = [threads EXCEPT ![t].pc = "line56"]
    /\ UNCHANGED <<bound, DEFAULT_WEIGHT_B, DEFAULT_WEIGHT_C, call, optVars>>

\* line 56
StoreWeightB(t) ==
    LET th == threads[t] IN
    /\ th.pc = "line56"
    /\ DEFAULT_WEIGHT_B' = FloatToInt(th.weights[2])
    /\ threads' = [threads EXCEPT ![t].pc = "line57"]
    /\ UNCHANGED <<bound, DEFAULT_WEIGHT_A, DEFAULT_WEIGHT_C, call, optVars>>

\* line 57, then line 64 up to the call of calculate_single_pass_price
StoreWeightC(t) ==
    LET th == threads[t] IN
    /\ th.pc = "line57"
    /\ DEFAULT_WEIGHT_C' = FloatToInt(th.weights[3])
    /\ threads' = [threads EXCEPT ![t].pc = "line276"]
    /\ UNCHANGED <<bound, DEFAULT_WEIGHT_A, DEFAULT_WEIGHT_B, call, optVars>>

\* lines 276-283: DEFAULT_WEIGHT_C is loaded, unless the level is 0
LoadWeightC(t) ==
    LET th == threads[t]
        s_plus_c == th.supply + DEFAULT_WEIGHT_C
    IN
    /\ th.pc = "line276"
    /\ threads' =
          [threads EXCEPT ![t] =
              IF th.supply = 0 \/ s_plus_c <= 1
              THEN SinglePassReturn(th, PyInt(INITIAL_PRICE), <<>>)
              ELSE [th EXCEPT !.pc = "line289", !.n = s_plus_c - 1,
                              !.loaded_c = DEFAULT_WEIGHT_C]]
    /\ UNCHANGED <<weightVars, call, optVars>>

\* lines 286-289: the summation, and DEFAULT_WEIGHT_A is loaded
LoadWeightA(t) ==
    LET th == threads[t] IN
    /\ th.pc = "line289"
    /\ threads' =
          [threads EXCEPT ![t].pc = "line290",
                          ![t].weighted_a =
                              PyFloorDiv(PyMul(calculate_summation(th.n),
                                               PyInt(DEFAULT_WEIGHT_A)), BPS),
                          ![t].loaded_a = DEFAULT_WEIGHT_A]
    /\ UNCHANGED <<weightVars, call, optVars>>

\* lines 290-296: DEFAULT_WEIGHT_B is loaded and the price returned
LoadWeightB(t) ==
    LET th == threads[t]
        weighted_b == PyFloorDiv(PyMul(th.weighted_a, PyInt(DEFAULT_WEIGHT_B)), BPS)
        price == PyMul(weighted_b, PyInt(OCTA))
    IN
    /\ th.pc = "line290"
    /\ threads' =
          [threads EXCEPT ![t] =
              SinglePassReturn(th, PyMax(PyInt(INITIAL_PRICE), price),
                               << <<th.loaded_a, DEFAULT_WEIGHT_B, th.loaded_c>> >>)]
    /\ UNCHANGED <<weightVars, call, optVars>>

\* lines 117-123: the score is compared, stored if best so far, and returned
StoreIfBest(t) ==
    LET th == threads[t] IN
    /\ th.pc = "line117"
    /\ \E score \in Scores :
          LET st == objective_function_store(OptimizerState, th.weights, score)
          IN  /\ bound' = st.bound
              /\ DEFAULT_WEIGHT_A' = st.DEFAULT_WEIGHT_A
              /\ DEFAULT_WEIGHT_B' = st.DEFAULT_WEIGHT_B
              /\ DEFAULT_WEIGHT_C' = st.DEFAULT_WEIGHT_C
              /\ best_score' = st.best_score
              /\ best_weights' = st.best_weights
              /\ history' = st.history
              /\ results_file' = st.results_file
              /\ evals' = Append(evals, [weights |-> th.weights, score |-> score])
              /\ threads' = [threads EXCEPT ![t].pc = "done",
                                            ![t].returned = TRUE,
                                            ![t].ret = <<score>>]
    /\ UNCHANGED <<call, X, y, pc, i, n_iterations>>

NextThreads ==
    \/ \E t \in Threads : EnforceConstraints(t)
    \/ \E t \in Threads : StoreWeightA(t)
    \/ \E t \in Threads : StoreWeightB(t)
    \/ \E t \in Threads : StoreWeightC(t)
    \/ \E t \in Threads : LoadWeightC(t)
    \/ \E t \in Threads : LoadWeightA(t)
    \/ \E t \in Threads : LoadWeightB(t)
    \/ \E t \in Threads : StoreIfBest(t)

SpecThreads == InitThreads /\ [][NextThreads]_vars

----------------------------------------------------------------------------
(* C2 *)

\* reference value n(n+1)(2n+1)/6, the product formed before any division
ExactSummation(n) ==
    PyFloorDiv(PyMul(PyMul(PyInt(n), PyInt(n + 1)), PyInt(2 * n + 1)), 6)

\* C2: for every n in 0..MaxN (MaxN = 10000) calculate_summation(n) returns
\* exactly n(n+1)(2n+1)/6, that product is divisible by 6 (no remainder is
\* lost), and calculate_summation(0) = 0.
C2_SummationExact ==
    (call.op = "calculate_summation" /\ call.returned) =>
        /\ call.ret = ExactSummation(call.n)
        /\ PyMod(PyMul(PyMul(PyInt(call.n), PyInt(call.n + 1)),
                       PyInt(2 * call.n + 1)), 6) = 0
        /\ (call.n = 0 => call.ret = <<>>)

\* the summation has been applied at the top of the range, where the product
\* n(n+1)(2n+1) is far above 2^31
C2_Witness ==
    /\ call.op = "calculate_summation"
    /\ call.returned
    /\ call.n = 10000
    /\ call.ret = <<5000, 8333, 3333>>   \* 333383335000

----------------------------------------------------------------------------
(* C1, C3, C4, C5, C6: the pricing functions *)

ValidWeights ==
    /\ bound
    /\ DEFAULT_WEIGHT_A \in 100..5000
    /\ DEFAULT_WEIGHT_B \in 100..5000
    /\ DEFAULT_WEIGHT_C \in 1..10

PriceReturned == call.op = "calculate_price" /\ call.returned

SinglePassReturned == call.op = "calculate_single_pass_price" /\ call.returned

C3_Monotonic ==
    (PriceReturned /\ ValidWeights /\ call.supply >= 0 /\ call.amount = 1
       /\ ~call.is_sell) =>
        PyLeq(call.ret, calculate_price(call.supply + 1, 1, FALSE))

\* a unit above the floor has been priced and the next one costs strictly more
C3_Witness ==
    /\ PriceReturned /\ ValidWeights
    /\ call.supply >= 1 /\ call.amount = 1 /\ ~call.is_sell
    /\ PyCmp(PyInt(INITIAL_PRICE), call.ret) < 0
    /\ PyCmp(call.ret, calculate_price(call.supply + 1, 1, FALSE)) < 0

\* floor(floor(summation(s + c - 1) * a / BPS) * b / BPS)
WeightedSummation(s) ==
    PyFloorDiv(PyMul(PyFloorDiv(PyMul(ExactSummation(s + DEFAULT_WEIGHT_C - 1),
                                      PyInt(DEFAULT_WEIGHT_A)), BPS),
                     PyInt(DEFAULT_WEIGHT_B)), BPS)

\* C4 as stated: calculate_single_pass_price(s) is INITIAL_PRICE when s = 0
\* or s + weightC <= 1, and otherwise max(INITIAL_PRICE, the weighted
\* summation) with no further scaling factor.
C4_SinglePassUnscaled ==
    (SinglePassReturned /\ ValidWeights /\ call.supply >= 0) =>
        call.ret = IF call.supply = 0 \/ call.supply + DEFAULT_WEIGHT_C <= 1
                   THEN PyInt(INITIAL_PRICE)
                   ELSE PyMax(PyInt(INITIAL_PRICE), WeightedSummation(call.supply))

\* C4 amended: calculate_single_pass_price(s) is INITIAL_PRICE when s = 0 or
\* s + weightC <= 1, and otherwise max(INITIAL_PRICE, the weighted summation
\* times OCTA).
C4_SinglePassScaled ==
    (SinglePassReturned /\ ValidWeights /\ call.supply >= 0) =>
        call.ret = IF call.supply = 0 \/ call.supply + DEFAULT_WEIGHT_C <= 1
                   THEN PyInt(INITIAL_PRICE)
                   ELSE PyMax(PyInt(INITIAL_PRICE),
                              PyMul(WeightedSummation(call.supply), PyInt(OCTA)))

\* a single unit has been priced above the floor: weights (350, 800, 3) at
\* supply 12 give summation(14) = 1015, weighted 35 then 2, price 2 * OCTA
C4_Witness ==
    /\ SinglePassReturned
    /\ DEFAULT_WEIGHT_A = 350 /\ DEFAULT_WEIGHT_B = 800 /\ DEFAULT_WEIGHT_C = 3
    /\ call.supply = 12
    /\ call.ret = PyInt(2 * OCTA)

\* the sum for k = 0 .. amount-1 of the unit price at level max(supply-k-1, 0)
RECURSIVE SellReference(_, _)
SellReference(supply, amount) ==
    IF amount <= 0
    THEN <<>>
    ELSE LET level == IF supply - amount > 0 THEN supply - amount ELSE 0
         IN  PyAdd(SellReference(supply, amount - 1),
                   calculate_single_pass_price(level))

\* C5: for every supply >= 0 and amount >= 0 a sell raises no error and
\* returns the sum of the unit prices at the levels max(supply - k - 1, 0);
\* every unit beyond the available supply is priced at exactly INITIAL_PRICE.
C5_SellClamp ==
    (PriceReturned /\ ValidWeights /\ call.is_sell /\ call.supply >= 0
       /\ call.amount >= 0) =>
        /\ call.raised = "none"
        /\ call.ret = SellReference(call.supply, call.amount)
        /\ call.amount > call.supply =>
              call.ret = PyAdd(SellReference(call.supply, call.supply),
                               PyMul(PyInt(call.amount - call.supply),
                                     PyInt(INITIAL_PRICE)))

\* more units than the supply have been sold, with an offset for which the
\* levels below 0 would not price at the floor
C5_Witness ==
    /\ PriceReturned /\ call.is_sell
    /\ DEFAULT_WEIGHT_A = 5000 /\ DEFAULT_WEIGHT_B = 5000 /\ DEFAULT_WEIGHT_C = 10
    /\ call.supply = 2 /\ call.amount = 4
    /\ call.raised = "none"

\* C6: a pricing call with a negative supply or a negative amount is rejected
\* with an InvalidInput error and never returns a price.
C6_NegativeRejected ==
    (PriceReturned /\ (call.supply < 0 \/ call.amount < 0)) =>
        call.raised = "InvalidInput"


----------------------------------------------------------------------------
(* C7: the fee quote *)

FeesReturned == call.op = "print_price_analysis" /\ call.returned

\* floor(p * bps / 10000) in atomic units
FeeReference(p, bps) == PyFloorDiv(PyMul(p, PyInt(bps)), BPS)

\* C7: the protocol fee is floor(p * 400 / 10000) and the beneficiary fee
\* floor(p * 800 / 10000) in atomic units, and the quoted total is
\* p + protocolFee + beneficiaryFee formed exactly in atomic units, converted
\* to display units only afterwards.
C7_FeeQuoteExact ==
    FeesReturned =>
        LET p == call.price_in_octa IN
        /\ call.ret.protocol_fee = TrueDivOcta(FeeReference(p, 400))
        /\ call.ret.subject_fee = TrueDivOcta(FeeReference(p, 800))
        /\ call.ret.total_cost =
              TrueDivOcta(PyAdd(PyAdd(p, FeeReference(p, 400)), FeeReference(p, 800)))

\* the part of C7 the code does satisfy: both fees are the floors of the
\* claim, converted to display units
C7_FeesAreFloors ==
    FeesReturned =>
        LET p == call.price_in_octa IN
        /\ call.ret.protocol_fee = TrueDivOcta(FeeReference(p, 400))
        /\ call.ret.subject_fee = TrueDivOcta(FeeReference(p, 800))


----------------------------------------------------------------------------
(* C8, C9, C10: the optimizer's bookkeeping *)

\* the least score among the first k evaluations, Inf if there is none
RECURSIVE MinScore(_)
MinScore(k) ==
    IF k = 0 THEN Inf
    ELSE LET rest == MinScore(k - 1)
         IN  IF evals[k].score < rest THEN evals[k].score ELSE rest

\* the candidate of the earliest evaluation that returned score
EarliestWith(score) ==
    LET k == CHOOSE k \in 1..Len(evals) :
                 /\ evals[k].score = score
                 /\ \A j \in 1..(k - 1) : evals[j].score # score
    IN  evals[k].weights

BestOfTrace ==
    LET least == MinScore(Len(evals))
    IN  <<IF least = Inf THEN None ELSE EarliestWith(least), least>>

\* C8: after any sequence of evaluations best_score is the least score
\* returned so far (infinity if none was finite) and best_weights the
\* candidate of the earliest evaluation that returned it; when the iteration
\* budget is exhausted bayesian_optimization returns exactly that pair.
C8_BestIsEarliestMinimum ==
    /\ <<best_weights, best_score>> = BestOfTrace
    /\ (call.op = "bayesian_optimization" /\ call.returned) =>
          /\ i = n_iterations
          /\ call.ret = BestOfTrace

\* bayesian_optimization has returned after its loop ran, and two different
\* candidates had returned the least score: the earlier one is kept
C8_Witness ==
    /\ call.op = "bayesian_optimization" /\ call.returned
    /\ n_iterations >= 1
    /\ \E j, k \in 1..Len(evals) :
          /\ j < k
          /\ evals[j].score = best_score /\ evals[k].score = best_score
          /\ evals[j].weights # evals[k].weights
          /\ best_weights = evals[j].weights
          /\ \E h \in 1..(j - 1) : evals[h].score > best_score

\* what one step does to the history: an evaluation that returned a score
\* strictly below the best known appends its (weights, score), nothing else
\* changes the history
HistoryStep ==
    history' = IF evals' # evals /\ evals'[Len(evals')].score < best_score
               THEN Append(history, evals'[Len(evals')])
               ELSE history

LastIsBest ==
    history # <<>> =>
        history[Len(history)] = [weights |-> best_weights, score |-> best_score]

\* C9: every evaluation whose score is strictly lower than the best known
\* appends exactly one (weights, score) entry to the history within the call;
\* entries are never removed, reordered or rewritten; and whenever the
\* history is non-empty its last entry is the current (best_weights,
\* best_score).
C9_HistoryAppendOnly == [](LastIsBest) /\ [][HistoryStep]_vars

\* two improvements have been stored, with an evaluation that was no
\* improvement after them
C9_Witness ==
    /\ Len(history) = 2
    /\ Len(evals) = 4
    /\ evals[Len(evals)].score > best_score
    /\ evals[Len(evals)].score < Inf
    /\ history[1].score > history[2].score
    /\ history[2] = [weights |-> best_weights, score |-> best_score]

\* outside the constraints as the claim words them, on floats held in halves
Infeasible(weights) ==
    \/ weights[1] < 200 \/ weights[1] > 10000
    \/ weights[2] < 200 \/ weights[2] > 10000
    \/ weights[3] < 2 \/ weights[3] > 20

\* C10: evaluating a candidate with weightA or weightB outside [100, 5000]
\* or weightC outside [1, 10] returns an infinite score, raises nothing and
\* leaves best_score, best_weights, the history and the DEFAULT_WEIGHT_*
\* globals as they were.
C10_InfeasibleLeavesState ==
    [][(evals' # evals /\ Infeasible(evals'[Len(evals')].weights)) =>
          /\ evals'[Len(evals')].score = Inf
          /\ call'.ret = <<Inf>>
          /\ call'.raised = "none"
          /\ UNCHANGED <<best_score, best_weights, history, weightVars>>]_vars

\* an infeasible candidate was evaluated after a best result existed, and a
\* later evaluation went on to improve on it
C10_Witness ==
    /\ Len(evals) >= 3
    /\ ~Infeasible(evals[1].weights)
    /\ Infeasible(evals[2].weights) /\ evals[2].score = Inf
    /\ ~Infeasible(evals[3].weights) /\ evals[3].score < evals[1].score
    /\ <<best_weights, best_score>> = <<evals[3].weights, evals[3].score>>

----------------------------------------------------------------------------
(* C11: evaluations and pricing calls running in concurrent threads *)

\* the weight triples of whole candidates
WholeTriples == {IntTriple(w) : w \in {c \in ThreadCandidates : InConstraints(c)}}

\* the prices an evaluation of weights computes for the target supplies when
\* nothing else runs
PricesAlone(weights) ==
    [k \in 1..NumPriced |->
        single_pass_price_loaded(TargetSupplies[k], FloatToInt(weights[1]),
                                 FloatToInt(weights[2]), FloatToInt(weights[3]))]

\* C11: when two objective evaluations, or an objective evaluation and an
\* independent pricing call, are interleaved, every single-unit price
\* computation uses one whole weight triple of a single candidate (an
\* evaluation: the triple of its own candidate), never a mix of two
\* candidates' fields, and the prices an evaluation takes its score from are
\* the prices of evaluating its candidate alone.
C11_EvaluationIsolated ==
    \A t \in DOMAIN threads :
        LET th == threads[t] IN
        /\ \A j \in 1..Len(th.used) :
              /\ th.used[j] \in WholeTriples
              /\ th.op = "objective_function" => th.used[j] = IntTriple(th.weights)
        /\ (th.op = "objective_function" /\ th.returned /\ th.ret # <<Inf>>) =>
              th.prices = PricesAlone(th.weights)

----------------------------------------------------------------------------
(* C12: buying and selling the same units *)

\* C12: for valid weights and every supply and amount with
\* 0 <= amount <= supply, calculate_price(supply, amount, Sell) equals
\* calculate_price(supply - amount, amount, Buy); and the other way round,
\* selling the amount units just bought from any supply >= 0 returns exactly
\* the base price paid for them.
C12_BuySellSymmetry ==
    /\ (PriceReturned /\ ValidWeights /\ call.is_sell
          /\ 0 <= call.amount /\ call.amount <= call.supply) =>
          /\ call.raised = "none"
          /\ call.ret = calculate_price(call.supply - call.amount, call.amount, FALSE)
    /\ (PriceReturned /\ ValidWeights /\ ~call.is_sell
          /\ 0 <= call.amount /\ 0 <= call.supply) =>
          /\ call.raised = "none"
          /\ call.ret = calculate_price(call.supply + call.amount, call.amount, TRUE)

\* several units have been sold from a supply where every unit is priced
\* above the floor and no two of them alike
C12_Witness ==
    /\ PriceReturned /\ ValidWeights /\ call.is_sell
    /\ call.amount = MaxAmount /\ call.amount < call.supply
    /\ \A k \in 0..(call.amount - 1) :
          /\ PyCmp(PyInt(INITIAL_PRICE),
                   calculate_single_pass_price(call.supply - k - 1)) < 0
          /\ PyCmp(calculate_single_pass_price(call.supply - k - 1),
                   calculate_single_pass_price(call.supply - k)) < 0
    /\ call.ret = calculate_price(call.supply - call.amount, call.amount, FALSE)

====
